---- MODULE Spec2Model ----
(***************************************************************************)
(* Speech playback pipeline of ReadAnything (src/main.py): the session     *)
(* controller (play_text / stop_text), the session workers                 *)
(* (TextToSpeechThread, PlayWavThread), the external synthesis / playback  *)
(* processes they own, and the single-slot pre-render cache.               *)
(*                                                                         *)
(* Scope: platform.system() = "Linux" (the only platform with the raw      *)
(* streaming strategy and the mpv/ffplay/paplay fallback chain).  The UI   *)
(* thread runs one handler at a time; stop_text is the only handler that   *)
(* blocks, so it is the only one split into steps.  Worker threads and     *)
(* external processes interleave freely with the UI thread.  Timeouts are  *)
(* modelled by their two outcomes (the awaited event happened in time, or  *)
(* it did not).                                                            *)
(***************************************************************************)
EXTENDS Integers, Sequences, FiniteSets, TLC

\* ------------------------------------------------------------------ bounds
MaxTextLen == 2
MaxSessions == 2
MaxPreRenders == 2
\* words of the request whose highlighting is followed
MaxWords == 2
\* the sample rates a voice config declares go up to 8000 + 1000 times this
MaxDeclaredThousands == 88

\* ------------------------------------------------------- program constants
PRE_RENDER_MAX_CHARS == 30000
PRE_RENDER_DEBOUNCE_MS == 700
\* speed_slider: minimum, maximum and initial value (words per minute)
RateMin == 50
RateMax == 300
RateDefault == 150
\* initial_latency_ms of start_highlighting on Linux
INITIAL_LATENCY_MS == 350

\* --------------------------------------------------------------- universes
Alphabet == {"a", " "}
Texts == UNION {[1..n -> Alphabet] : n \in 0..MaxTextLen}
PiperVoices == {"p1.onnx", "p2.onnx"}
Voices == {"default"} \cup PiperVoices

None == {}
Some(x) == {x}

\* Process slots of one session worker, and the statuses of a process.
\*   spiper/splayer : piper --output-raw and aplay of the streaming strategy
\*   synth          : piper --output_file of the file-based strategy
\*   mpv/ffplay/paplay : the player candidates, in the order the code tries
Players == <<"mpv", "ffplay", "paplay">>
PlayerSlots == {"mpv", "ffplay", "paplay"}
Slots == {"spiper", "splayer", "synth"} \cup PlayerSlots
\* The executables the pipeline spawns; which of them the host has installed is
\* fixed while the program runs.
Executables == {"piper", "aplay"} \cup PlayerSlots
\*   none    never spawned (or Popen raised: the executable is not installed)
\*   alive   running
\* and, for the two piper processes, whose exit status the code reads,
\*   exit0   exited with status 0   termed   died of SIGTERM (status -15)
\*   nonzero any other status (SIGKILL's -9 included)
\* or, for a player, whose exit status is never read,
\*   dead    exited, by itself or by a signal
PiperSlots == {"spiper", "synth"}
NoProcs == [sl \in Slots |-> "none"]

\* ---------------------------------------------------------- pure functions
\* str.strip() on a text over Alphabet.
RECURSIVE LStrip(_)
LStrip(s) == IF s = <<>> THEN s
             ELSE IF Head(s) = " " THEN LStrip(Tail(s)) ELSE s
RECURSIVE RStrip(_)
RStrip(s) == IF s = <<>> THEN s
             ELSE IF s[Len(s)] = " " THEN RStrip(SubSeq(s, 1, Len(s) - 1)) ELSE s
strip(s) == RStrip(LStrip(s))

\* len(re.findall(r'\b\w+\b', text)): the number of maximal runs of word
\* characters.
RECURSIVE CountWords(_, _)
CountWords(s, inWord) ==
    IF s = <<>> THEN 0
    ELSE IF Head(s) = " " THEN CountWords(Tail(s), FALSE)
    ELSE (IF inWord THEN 0 ELSE 1) + CountWords(Tail(s), TRUE)
prepare_word_positions(t) == CountWords(t, FALSE)

\* voice_id and isinstance(voice_id, str) and voice_id.endswith('.onnx')
\* and os.path.exists(voice_id)
is_piper_voice(v) == v \in PiperVoices

\* ------------------------------------------------------- helper functions

Min(a, b) == IF a <= b THEN a ELSE b
Max(a, b) == IF a >= b THEN a ELSE b

\* A speed multiplier is a float in the code and a fraction here.
Frac(n, d) == [num |-> n, den |-> d]
FracLE(a, b) == a.num * b.den <= b.num * a.den
FracMin(a, b) == IF FracLE(a, b) THEN a ELSE b
FracMax(a, b) == IF FracLE(a, b) THEN b ELSE a
NotComputed == Frac(0, 1)

\* A playback speed relative to a baseline of 100 words per minute.
playback_speed_from_rate_base100(r) ==
    LET r1 == Max(50, Min(300, r))
    IN FracMax(Frac(3, 10), FracMin(Frac(5, 2), Frac(r1, 100)))

\* TextToSpeechThread._convert_rate_to_playback_speed: the rate clamped to
\* 50..300, divided by baseline_wpm = 150, clamped to 0.3..2.5.
convert_rate_to_playback_speed(r) ==
    LET r1 == IF r < 50 THEN 50 ELSE IF r > 300 THEN 300 ELSE r
        speed_mult == Frac(r1, 150)
    IN FracMax(Frac(3, 10), FracMin(Frac(5, 2), speed_mult))

\* _playback_speed_from_rate:
\*   rate = max(50, min(300, rate)); return max(0.3, min(2.5, rate / 150.0))
playback_speed_from_rate(r) ==
    LET r1 == Max(50, Min(300, r))
    IN FracMax(Frac(3, 10), FracMin(Frac(5, 2), Frac(r1, 150)))

\* The voice configs a host can hold at <model>.onnx.json: none, a file that
\* does not parse or has another shape (reading it raises), a config
\* without audio.sample_rate, a sample_rate that int() rejects, or a
\* sample_rate that is an integer.
DeclaredRates ==
    {-1, 0, 1, 22050, 44100} \cup
    {8000 + 1000 * k + d : k \in 0..MaxDeclaredThousands, d \in {-1, 0, 1}}
Sidecars ==
    [kind : {"absent", "malformed", "no sample_rate", "not a number"}, sample_rate : {0}]
    \cup [kind : {"integer"}, sample_rate : DeclaredRates]

\* A _read_piper_sample_rate that returns the declared value as it is.
read_piper_sample_rate_unclamped(sc) ==
    IF sc.kind # "integer" THEN 22050
    ELSE IF sc.sample_rate = 0 THEN 22050 ELSE sc.sample_rate

\* TextToSpeechThread._read_piper_sample_rate: 22050 if the config does not
\* exist or anything raises; else sr = int(sr) if sr else 22050, clamped to
\* 8000..96000.
read_piper_sample_rate(sc) ==
    IF sc.kind \in {"absent", "malformed", "not a number"} THEN 22050
    ELSE LET sr == IF sc.kind = "no sample_rate" \/ sc.sample_rate = 0
                   THEN 22050 ELSE sc.sample_rate
         IN Max(8000, Min(96000, sr))

\* The places find_piper_binary looks at, in its order.
Candidates ==
    <<"configured_path", "PIPER_BIN_PATH",
      "~/.local/bin/piper", "~/bin/piper", "~/.local/share/piper/piper",
      "/usr/local/bin/piper", "/opt/homebrew/bin/piper", "/usr/bin/piper",
      "PATH">>

\* What a place can hold: "unset" (no configured path, no environment
\* variable), "missing", "noexec" (exists, not executable), "ok" (exists and
\* executable), "raises" (examining the path raises: Path.expanduser() on
\* "~nosuchuser/piper", Path.exists() on a name that is too long).
PathStatus(i) ==
    IF i \in {1, 2} THEN {"unset", "missing", "noexec", "ok", "raises"}
    ELSE IF i = Len(Candidates) THEN {"missing", "ok"}
    ELSE {"missing", "noexec", "ok", "raises"}
Hosts == {p \in [DOMAIN Candidates -> {"unset", "missing", "noexec", "ok", "raises"}] :
            \A i \in DOMAIN Candidates : p[i] \in PathStatus(i)}

\* The first place of the list, from i on, that holds an executable.
RECURSIVE FirstOk(_, _)
FirstOk(p, i) ==
    IF i > Len(Candidates) THEN "None"
    ELSE IF p[i] = "ok" THEN Candidates[i]
    ELSE FirstOk(p, i + 1)

\* find_piper_binary: the configured path (guarded by try / except), then
\* PIPER_BIN_PATH (not guarded: an exception leaves the function), then the
\* well-known locations (guarded), then shutil.which (guarded).
find_piper_binary(p) ==
    IF p[1] = "ok" THEN Candidates[1]
    ELSE IF p[2] = "raises" THEN "raised"
    ELSE FirstOk(p, 2)

VARIABLES
    text,                   \* text_area.toPlainText()
    voice,                  \* voice_combo.currentData()
    rate,                   \* speed_slider.value()
    piper_available,        \* self.piper_available (bool(self.piper_binary))
    installed,              \* the executables Popen can spawn on this host
    engine,                 \* self.engine: [init: pyttsx3.init() succeeded,
                            \*   speaking: session whose utterance it is speaking, 0 if idle]
    pre_render_text,        \* self._pre_render_text       (None or Some)
    pre_render_voice_id,    \* self._pre_render_voice_id   (None or Some)
    pre_render_audio_path,  \* self._pre_render_audio_path (None or Some)
    debounce_active,        \* self._pre_render_debounce_timer.isActive()
    debounce_left,          \* ms until the active debounce timer fires
    since_change,           \* ms since the most recent text or voice change
                            \*   (counted up to PRE_RENDER_DEBOUNCE_MS)
    prWorkers,              \* the pre-render worker threads started so far, each
                            \*   [text, voice: what it was started with,
                            \*    ok: piper succeeded,
                            \*    pc: start, synth, posted (callback queued), then
                            \*        committed / discarded (callback ran)]
    prQueue,                \* QTimer.singleShot(0, ...) callbacks posted by them
    disk,                   \* pre-render temp files that exist (by worker index)
    sessions,               \* the session workers created so far
    tts_thread,             \* self.tts_thread: 0 (None) or an index of sessions
    signals,                \* queued finished / error signals to the UI thread
    uiPc,                   \* position of the UI thread inside stop_text
    uiCont,                 \* who called stop_text: "stop" or "play"
    highlight_timer,        \* self.highlight_timer.isActive()
    word_positions,         \* len(self.word_positions)
    current_word_index,     \* self.current_word_index
    highlighted,            \* the indices of word_positions whose span has
                            \*   the yellow background in the document
    delay_ms,               \* highlight_timer.interval()
    timer_left,             \* ms until the active highlight_timer fires
    oneshots,               \* pending QTimer.singleShot(initial_latency_ms,
                            \*   self.highlight_next_word) calls: the ms
                            \*   each still has to wait, oldest first
    dialog,                 \* the last QMessageBox shown ("none" if none)
    speed_multiplier,       \* what _convert_rate_to_playback_speed returned
    speed,                  \* what _playback_speed_from_rate returned
    sidecar,                \* the voice config <model>.onnx.json on disk
    sample_rate,            \* what _read_piper_sample_rate returned
    paths,                  \* what the host holds at each candidate location
                            \*   of the piper executable
    piper_binary,           \* what find_piper_binary returned
    play_btn                \* self.play_btn.isEnabled()

cacheVars == <<pre_render_text, pre_render_voice_id, pre_render_audio_path,
               debounce_active, debounce_left, since_change, prWorkers, prQueue, disk>>
debounceVars == <<debounce_active, debounce_left, since_change>>
inputVars == <<text, voice, rate, piper_available, installed>>
hlVars == <<highlight_timer, word_positions, current_word_index, highlighted,
           delay_ms, timer_left, oneshots>>
sessVars == <<sessions, tts_thread, signals, uiPc, uiCont, play_btn, engine, dialog>>
calcVars == <<speed_multiplier, speed, sidecar, sample_rate, paths, piper_binary>>
vars == <<inputVars, cacheVars, hlVars, sessVars, calcVars>>

\* No helper function has been called yet, on a host with no voice config
\* and no piper executable anywhere.
NothingComputed ==
    /\ speed_multiplier = NotComputed
    /\ speed = NotComputed
    /\ sidecar = [kind |-> "absent", sample_rate |-> 0]
    /\ sample_rate = 0
    /\ paths = [i \in DOMAIN Candidates |-> IF i \in {1, 2} THEN "unset" ELSE "missing"]
    /\ piper_binary = "not called"

\* ReadAnythingApp.__init__: nothing playing, empty cache, empty text box.
\* Whether find_piper_binary resolved an executable is fixed by the host.
Init ==
    /\ text = <<>>
    /\ voice \in Voices
    /\ piper_available \in BOOLEAN
    /\ installed = Executables
    /\ engine = [init |-> FALSE, speaking |-> 0]
    /\ pre_render_text = None
    /\ pre_render_voice_id = None
    /\ pre_render_audio_path = None
    /\ debounce_active = FALSE
    /\ debounce_left = 0
    /\ since_change = PRE_RENDER_DEBOUNCE_MS
    /\ prWorkers = <<>>
    /\ prQueue = <<>>
    /\ disk = {}
    /\ sessions = <<>>
    /\ tts_thread = 0
    /\ signals = <<>>
    /\ uiPc = "idle"
    /\ uiCont = "stop"
    /\ highlight_timer = FALSE
    /\ word_positions = 0
    /\ current_word_index = 0
    /\ highlighted = {}
    /\ delay_ms = 0
    /\ timer_left = 0
    /\ oneshots = <<>>
    /\ play_btn = TRUE
    /\ dialog = "none"
    /\ NothingComputed
    /\ rate = RateDefault

\* =================================================== pre-render cache (4.3)

\* An invalidation that left the entry's file on disk.
on_text_or_voice_changed_keepfile ==
    /\ pre_render_text' = None
    /\ pre_render_voice_id' = None
    /\ pre_render_audio_path' = None
    /\ disk' = disk
    /\ debounce_active' = TRUE
    /\ debounce_left' = PRE_RENDER_DEBOUNCE_MS
    /\ since_change' = 0

\* An invalidation that let a running debounce timer run on.
on_text_or_voice_changed_norestart ==
    /\ pre_render_text' = None
    /\ pre_render_voice_id' = None
    /\ pre_render_audio_path' = None
    /\ disk' = disk \ pre_render_audio_path
    /\ debounce_active' = TRUE
    /\ debounce_left' = IF debounce_active THEN debounce_left ELSE PRE_RENDER_DEBOUNCE_MS
    /\ since_change' = 0

\* A change handler that restarted the debounce timer and kept the entry.
on_text_or_voice_changed_keepentry ==
    /\ UNCHANGED <<pre_render_text, pre_render_voice_id, pre_render_audio_path, disk>>
    /\ debounce_active' = TRUE
    /\ debounce_left' = PRE_RENDER_DEBOUNCE_MS
    /\ since_change' = 0

\* _on_text_or_voice_changed: drop the entry, delete its file, restart the
\* debounce timer.
on_text_or_voice_changed ==
    /\ pre_render_text' = None
    /\ pre_render_voice_id' = None
    /\ pre_render_audio_path' = None
    /\ disk' = disk \ pre_render_audio_path
    /\ debounce_active' = TRUE
    /\ debounce_left' = PRE_RENDER_DEBOUNCE_MS
    /\ since_change' = 0

\* The user edits the text box (textChanged).
TextChanged(t) ==
    /\ uiPc = "idle"
    /\ t # text
    /\ text' = t
    /\ on_text_or_voice_changed
    /\ UNCHANGED <<voice, rate, piper_available, installed, calcVars, prWorkers, prQueue, hlVars, sessVars>>

\* The user selects another voice (currentIndexChanged).
VoiceChanged(v) ==
    /\ uiPc = "idle"
    /\ v # voice
    /\ voice' = v
    /\ on_text_or_voice_changed
    /\ UNCHANGED <<text, rate, piper_available, installed, calcVars, prWorkers, prQueue, hlVars, sessVars>>

\* Time passes while the debounce timer runs: half or all of the debounce
\* interval, the timer counting down to 0, where it fires.
TimePasses(d) ==
    /\ debounce_active /\ debounce_left > 0
    /\ debounce_left' = IF debounce_left > d THEN debounce_left - d ELSE 0
    /\ since_change' = IF since_change + d < PRE_RENDER_DEBOUNCE_MS
                       THEN since_change + d ELSE PRE_RENDER_DEBOUNCE_MS
    /\ UNCHANGED <<inputVars, calcVars, pre_render_text, pre_render_voice_id, pre_render_audio_path,
                   debounce_active, prWorkers, prQueue, disk, hlVars, sessVars>>

\* A guard that refuses a text of PRE_RENDER_MAX_CHARS characters too.
pre_render_wanted_below_max ==
    /\ strip(text) # <<>>
    /\ ~(Len(strip(text)) >= PRE_RENDER_MAX_CHARS)
    /\ is_piper_voice(voice)
    /\ piper_available

\* The guard of _do_pre_render: nothing is started for an empty or over-long
\* text, a voice that is no Piper model, or a missing executable.
pre_render_wanted ==
    /\ strip(text) # <<>>
    /\ ~(Len(strip(text)) > PRE_RENDER_MAX_CHARS)
    /\ is_piper_voice(voice)
    /\ piper_available

\* _do_pre_render: the debounce timer fires (single shot) and, if wanted,
\* starts a worker thread that captures the current text and voice.
do_pre_render ==
    /\ uiPc = "idle"
    /\ debounce_active /\ debounce_left = 0
    /\ debounce_active' = FALSE
    /\ UNCHANGED <<debounce_left, since_change>>
    /\ IF pre_render_wanted
       THEN /\ Len(prWorkers) < MaxPreRenders
            /\ prWorkers' = Append(prWorkers,
                   [text |-> strip(text), voice |-> voice, pc |-> "start", ok |-> FALSE])
       ELSE UNCHANGED prWorkers
    /\ UNCHANGED <<inputVars, calcVars, pre_render_text, pre_render_voice_id,
                   pre_render_audio_path, prQueue, disk, hlVars, sessVars>>

\* worker(): tempfile.NamedTemporaryFile(delete=False) creates the output
\* file before piper runs.
PreRenderCreate(w) ==
    /\ prWorkers[w].pc = "start"
    /\ disk' = disk \cup {w}
    /\ prWorkers' = [prWorkers EXCEPT ![w].pc = "synth"]
    /\ UNCHANGED <<inputVars, calcVars, pre_render_text, pre_render_voice_id,
                   pre_render_audio_path, debounceVars, prQueue, hlVars, sessVars>>

\* worker(): subprocess.run returned 0 and the file exists: post
\* _on_pre_render_done(True, temp_path, text, voice_id).
PreRenderSynthOk(w) ==
    /\ prWorkers[w].pc = "synth"
    /\ "piper" \in installed
    /\ prWorkers' = [prWorkers EXCEPT ![w].pc = "posted", ![w].ok = TRUE]
    /\ prQueue' = Append(prQueue, w)
    /\ UNCHANGED <<inputVars, calcVars, pre_render_text, pre_render_voice_id,
                   pre_render_audio_path, debounceVars, disk, hlVars, sessVars>>

\* A failing worker that left its output file on disk.
PreRenderSynthFail_keepfile(w) ==
    /\ prWorkers[w].pc = "synth"
    /\ prWorkers' = [prWorkers EXCEPT ![w].pc = "posted", ![w].ok = FALSE]
    /\ prQueue' = Append(prQueue, w)
    /\ UNCHANGED <<inputVars, calcVars, pre_render_text, pre_render_voice_id,
                   pre_render_audio_path, debounceVars, disk, hlVars, sessVars>>

\* worker(): non-zero exit, or subprocess.run raised (timeout=120 included):
\* delete the file and post _on_pre_render_done(False, None, text, voice_id).
PreRenderSynthFail(w) ==
    /\ prWorkers[w].pc = "synth"
    /\ disk' = disk \ {w}
    /\ prWorkers' = [prWorkers EXCEPT ![w].pc = "posted", ![w].ok = FALSE]
    /\ prQueue' = Append(prQueue, w)
    /\ UNCHANGED <<inputVars, calcVars, pre_render_text, pre_render_voice_id,
                   pre_render_audio_path, debounceVars, hlVars, sessVars>>

\* A freshness test that ignored the voice.
pre_render_fresh_novoice(success, path, t, v) ==
    success /\ path # None /\ strip(text) = t

\* The freshness test of _on_pre_render_done.
pre_render_fresh(success, path, t, v) ==
    success /\ path # None /\ strip(text) = t /\ voice = v

\* A callback that committed every successful result under the text and
\* voice current when it runs.
on_pre_render_done_current(w, success, path, t, v) ==
    IF success /\ path # None
    THEN /\ pre_render_text' = Some(strip(text))
         /\ pre_render_voice_id' = Some(voice)
         /\ pre_render_audio_path' = path
         /\ disk' = disk \ (pre_render_audio_path \ path)
         /\ prWorkers' = [prWorkers EXCEPT ![w].pc = "committed"]
    ELSE /\ disk' = disk \ path
         /\ prWorkers' = [prWorkers EXCEPT ![w].pc = "discarded"]
         /\ UNCHANGED <<pre_render_text, pre_render_voice_id, pre_render_audio_path>>

\* _on_pre_render_done(success, path, text, voice_id), on the UI thread:
\* commit a fresh result (deleting the file it replaces), discard a stale one.
on_pre_render_done(w, success, path, t, v) ==
    IF pre_render_fresh(success, path, t, v)
    THEN /\ pre_render_text' = Some(t)
         /\ pre_render_voice_id' = Some(v)
         /\ pre_render_audio_path' = path
         /\ disk' = disk \ (pre_render_audio_path \ path)
         /\ prWorkers' = [prWorkers EXCEPT ![w].pc = "committed"]
    ELSE /\ disk' = disk \ path
         /\ prWorkers' = [prWorkers EXCEPT ![w].pc = "discarded"]
         /\ UNCHANGED <<pre_render_text, pre_render_voice_id, pre_render_audio_path>>

\* A callback delivery that reported a failed pre-render as a speech error.
PreRenderDone_reports ==
    /\ uiPc = "idle"
    /\ prQueue # <<>>
    /\ LET w == Head(prQueue) IN
         /\ on_pre_render_done(w, prWorkers[w].ok,
                               IF prWorkers[w].ok THEN Some(w) ELSE None,
                               prWorkers[w].text, prWorkers[w].voice)
         /\ signals' = IF prWorkers[w].ok THEN signals ELSE Append(signals, <<0, "error">>)
    /\ prQueue' = Tail(prQueue)
    /\ UNCHANGED <<inputVars, calcVars, debounceVars, hlVars, sessions, tts_thread, dialog,
                   uiPc, uiCont, play_btn, engine>>

\* The UI event loop delivers the oldest posted pre-render callback.
PreRenderDone ==
    /\ uiPc = "idle"
    /\ prQueue # <<>>
    /\ LET w == Head(prQueue) IN
         on_pre_render_done(w, prWorkers[w].ok,
                            IF prWorkers[w].ok THEN Some(w) ELSE None,
                            prWorkers[w].text, prWorkers[w].voice)
    /\ prQueue' = Tail(prQueue)
    /\ UNCHANGED <<inputVars, calcVars, debounceVars, hlVars, sessVars>>

\* ======================================== word highlight synchronizer (4.5)

\* The rates r for which the double 1000 / (r / 60.0) lies just below the
\* integer 60000 / r, so that int() yields one less (IEEE-754 evaluation of
\* the expression for every r of 1..2000).
RoundsBelow == {125, 250, 500, 1000}

\* A delay per word that is not clamped.
delay_per_word_unclamped(r) ==
    IF r > 0 THEN (60000 \div r) - (IF r \in RoundsBelow THEN 1 ELSE 0) ELSE 200

\* The delay per word of start_highlighting:
\*   words_per_second = rate / 60.0
\*   delay_ms = int(1000 / words_per_second) if words_per_second > 0 else 200
\*   delay_ms = max(50, min(delay_ms, 1000))
delay_per_word(r) ==
    LET delay == IF r > 0
                 THEN (60000 \div r) - (IF r \in RoundsBelow THEN 1 ELSE 0)
                 ELSE 200
    IN Max(50, Min(delay, 1000))

\* stop_highlighting: stop the timer, clear the word list, reset the index.
stop_highlighting ==
    /\ highlight_timer' = FALSE
    /\ timer_left' = 0
    /\ word_positions' = 0
    /\ current_word_index' = 0
    /\ highlighted' = {}
    /\ UNCHANGED delay_ms

\* start_highlighting(text, rate): stop_highlighting, rescan the words, and,
\* unless the text has no word, start the repeating timer and post the
\* one-shot call of highlight_next_word for the initial latency.
start_highlighting(t, r) ==
    /\ word_positions' = prepare_word_positions(t)
    /\ current_word_index' = 0
    /\ highlighted' = {}
    /\ IF prepare_word_positions(t) > 0
       THEN /\ highlight_timer' = TRUE
            /\ delay_ms' = delay_per_word(r)
            /\ timer_left' = delay_per_word(r)
            /\ oneshots' = Append(oneshots, INITIAL_LATENCY_MS)
       ELSE /\ highlight_timer' = FALSE
            /\ timer_left' = 0
            /\ UNCHANGED <<delay_ms, oneshots>>

\* A highlight_next_word without the test for the end of the list.
highlight_next_word_unchecked ==
    /\ current_word_index' = current_word_index + 1
    /\ highlighted' = (highlighted \ {current_word_index - 1}) \cup {current_word_index}
    /\ UNCHANGED <<highlight_timer, word_positions, delay_ms>>

\* A highlight_next_word that leaves the previous word yellow.
highlight_next_word_no_clear ==
    IF word_positions = 0 \/ current_word_index >= word_positions
    THEN stop_highlighting
    ELSE /\ current_word_index' = current_word_index + 1
         /\ highlighted' = highlighted \cup {current_word_index}
         /\ UNCHANGED <<highlight_timer, word_positions, delay_ms>>

\* highlight_next_word: past the end of the list (or with no list) stop
\* highlighting; else highlight word_positions[current_word_index], clear
\* the highlight of the word before it if there is one, and advance.
highlight_next_word ==
    IF word_positions = 0 \/ current_word_index >= word_positions
    THEN stop_highlighting
    ELSE /\ current_word_index' = current_word_index + 1
         /\ highlighted' = (highlighted \ {current_word_index - 1})
                                \cup {current_word_index}
         /\ UNCHANGED <<highlight_timer, word_positions, delay_ms>>

\* highlight_timer.timeout, connected to highlight_next_word: the repeating
\* timer has run for its interval; it starts the next interval unless the
\* slot stopped it.
HighlightTick ==
    /\ uiPc = "idle"
    /\ highlight_timer /\ timer_left = 0
    /\ highlight_next_word
    /\ timer_left' = (IF highlight_timer' THEN delay_ms ELSE 0)
    /\ UNCHANGED <<inputVars, calcVars, cacheVars, sessVars, oneshots>>

\* The one-shot call posted by start_highlighting comes due.  Nothing
\* cancels it: it runs whatever happened to the highlighting meanwhile.
OneShotTick ==
    /\ uiPc = "idle"
    /\ oneshots # <<>> /\ Head(oneshots) = 0
    /\ oneshots' = Tail(oneshots)
    /\ highlight_next_word
    /\ timer_left' = (IF highlight_timer' THEN timer_left ELSE 0)
    /\ UNCHANGED <<inputVars, calcVars, cacheVars, sessVars>>

\* The time until the next timer event of the highlighting: the repeating
\* timer if active, and the pending one-shot calls.
NextDeadline ==
    LET lefts == (IF highlight_timer THEN {timer_left} ELSE {})
                 \cup {oneshots[i] : i \in DOMAIN oneshots}
    IN CHOOSE d \in lefts : \A e \in lefts : d <= e

\* Time passes up to the next timer event of the highlighting.  A timer that
\* is due fires before more time passes.
HlTimePasses ==
    /\ highlight_timer \/ oneshots # <<>>
    /\ NextDeadline > 0
    /\ timer_left' = (IF highlight_timer THEN timer_left - NextDeadline ELSE timer_left)
    /\ oneshots' = [i \in DOMAIN oneshots |-> oneshots[i] - NextDeadline]
    /\ UNCHANGED <<highlight_timer, word_positions, current_word_index, highlighted, delay_ms>>
    /\ UNCHANGED <<inputVars, calcVars, cacheVars, sessVars>>

\* ============================================= session controller (4.4)

\* run() returned: the worker's Popen objects are never polled again, so the
\* exit statuses they hold and the loop position are forgotten (a process is
\* alive or dead from now on).
Returned(th) ==
    [th EXCEPT !.try = 1,
               !.procs = [sl \in Slots |->
                            IF th.procs[sl] \in {"none", "alive"} THEN th.procs[sl] ELSE "dead"]]
Set(s, r) == sessions' = [sessions EXCEPT ![s] = IF r.pc = "done" THEN Returned(r) ELSE r]
Emit(s, kind) == signals' = Append(signals, <<s, kind>>)

isRunning(s) == sessions[s].pc # "done"
thread_running == tts_thread # 0 /\ isRunning(tts_thread)

\* TextToSpeechThread.__init__ / PlayWavThread.__init__
NewThread(kind, t, v, wav) ==
    [kind |-> kind,             \* "piper" | "default" | "wav"
     text |-> t, voice |-> v,   \* the request (self.text, self.voice_id)
     wav |-> wav,               \* PlayWavThread.wav_path (None for the others)
     pc |-> "start",
     is_running |-> TRUE,       \* self._is_running
     process |-> "None",        \* self._process: "None" or a slot
     piper_process |-> "None",  \* self._piper_process: "None" or "spiper"
     procs |-> NoProcs,         \* status of every process this worker spawned
     try |-> 1,                 \* position in the player candidate list
     temp |-> FALSE,            \* the on-demand temp wav file exists
     fin |-> 0, err |-> 0]      \* finished / error signals emitted

\* The pre-render lookup of play_text: the entry is used only for a Piper
\* voice, an existing file, and the same text and voice as the request.
pre_render_hit ==
    /\ is_piper_voice(voice)
    /\ pre_render_audio_path # None
    /\ pre_render_audio_path \subseteq disk
    /\ pre_render_text = Some(strip(text))
    /\ pre_render_voice_id = Some(voice)

\* thread creation, signal connection, start(), start_highlighting and the
\* Play button, common to both branches of play_text.
start_thread(kind, wav) ==
    /\ sessions' = Append(sessions, NewThread(kind, strip(text), voice, wav))
    /\ tts_thread' = Len(sessions) + 1
    /\ start_highlighting(strip(text), rate)
    /\ play_btn' = FALSE
    /\ UNCHANGED dialog

\* A play_text that does not look at piper_available.
play_text_body_unchecked ==
    \/ /\ pre_render_hit
       /\ start_thread("wav", pre_render_audio_path)
       /\ UNCHANGED engine
    \/ /\ ~pre_render_hit /\ is_piper_voice(voice)
       /\ start_thread("piper", None)
       /\ UNCHANGED engine
    \/ /\ ~is_piper_voice(voice)
       /\ engine' = [engine EXCEPT !.init = TRUE]
       /\ start_thread("default", None)
    \/ /\ ~is_piper_voice(voice) /\ ~engine.init
       /\ dialog' = "System TTS Unavailable"
       /\ UNCHANGED <<sessions, tts_thread, hlVars, play_btn, engine>>

\* play_text from "Get selected voice and speed" on (the text is not empty
\* and any running worker has been stopped).
play_text_body ==
    \/ /\ pre_render_hit
       /\ start_thread("wav", pre_render_audio_path)
       /\ UNCHANGED engine
    \/ /\ ~pre_render_hit /\ is_piper_voice(voice) /\ piper_available
       /\ start_thread("piper", None)
       /\ UNCHANGED engine
    \/ /\ ~pre_render_hit /\ is_piper_voice(voice) /\ ~piper_available
       \* "Piper TTS Not Available" dialog, return
       /\ dialog' = "Piper TTS Not Available"
       /\ UNCHANGED <<sessions, tts_thread, hlVars, play_btn, engine>>
    \/ /\ ~is_piper_voice(voice)
       \* init_engine() succeeds (or the engine exists already)
       /\ engine' = [engine EXCEPT !.init = TRUE]
       /\ start_thread("default", None)
    \/ /\ ~is_piper_voice(voice) /\ ~engine.init
       \* init_engine() fails: "System TTS Unavailable", return
       /\ dialog' = "System TTS Unavailable"
       /\ UNCHANGED <<sessions, tts_thread, hlVars, play_btn, engine>>

\* play_text with no running worker.
PlayText ==
    /\ uiPc = "idle"
    /\ Len(sessions) < MaxSessions
    /\ strip(text) # <<>>
    /\ ~thread_running
    /\ play_text_body
    /\ UNCHANGED <<inputVars, calcVars, cacheVars, signals, uiPc, uiCont>>

\* A stop_text that stopped the session worker whether it runs or not.
StopTextBegin_unguarded(cont) ==
    /\ uiPc = "idle"
    /\ cont = "play" => Len(sessions) < MaxSessions /\ strip(text) # <<>> /\ thread_running
    /\ stop_highlighting
    /\ UNCHANGED oneshots
    /\ IF tts_thread # 0
       THEN /\ sessions' = [sessions EXCEPT ![tts_thread].is_running = FALSE]
            /\ uiPc' = "stop_procs"
            /\ uiCont' = cont
            /\ UNCHANGED <<play_btn, engine>>
       ELSE /\ engine' = [engine EXCEPT !.speaking = 0]
            /\ play_btn' = TRUE
            /\ UNCHANGED <<sessions, uiPc, uiCont>>
    /\ UNCHANGED <<inputVars, calcVars, cacheVars, tts_thread, dialog, signals>>

\* stop_text up to the first statement of thread.stop(): stop_highlighting,
\* then, if the worker runs, _is_running = False.  Called by the Stop button
\* (cont = "stop") or by play_text while a worker is running (cont = "play").
StopTextBegin(cont) ==
    /\ uiPc = "idle"
    /\ cont = "play" => Len(sessions) < MaxSessions /\ strip(text) # <<>> /\ thread_running
    /\ stop_highlighting
    /\ UNCHANGED oneshots
    /\ IF thread_running
       THEN /\ sessions' = [sessions EXCEPT ![tts_thread].is_running = FALSE]
            /\ uiPc' = "stop_procs"
            /\ uiCont' = cont
            /\ UNCHANGED <<play_btn, engine>>
       ELSE \* nothing runs: self.engine.stop(), enable the Play button
            /\ engine' = [engine EXCEPT !.speaking = 0]
            /\ play_btn' = TRUE
            /\ UNCHANGED <<sessions, uiPc, uiCont>>
    /\ UNCHANGED <<inputVars, calcVars, cacheVars, tts_thread, dialog, signals>>

\* terminate(); wait(timeout); kill() on timeout: the process is dead either
\* way, with SIGTERM's or SIGKILL's status.
TermKill(th, slot, how) ==
    IF slot # "None" /\ th.procs[slot] = "alive"
    THEN [th.procs EXCEPT ![slot] = IF slot \in PiperSlots THEN how ELSE "dead"]
    ELSE th.procs

\* A stop_text that joined the worker with an unbounded wait().
StopProcs_unbounded ==
    /\ uiPc = "stop_procs"
    /\ sessions[tts_thread].pc = "done"
    /\ engine' = [engine EXCEPT !.speaking = 0]
    /\ play_btn' = TRUE
    /\ uiPc' = IF uiCont = "play" THEN "play_cont" ELSE "idle"
    /\ uiCont' = "stop"
    /\ UNCHANGED <<inputVars, calcVars, cacheVars, hlVars, sessions, tts_thread, dialog, signals>>

\* The rest of stop_text.  TextToSpeechThread.stop() / PlayWavThread.stop():
\* terminate, wait briefly and kill self._piper_process and self._process if
\* alive (the engine of a 'default' worker is stopped too); then
\* tts_thread.wait(100) returns, the worker having finished or not;
\* self.engine.stop(); Play button enabled.  (What the worker does during the
\* 100 ms it can as well do after them: nothing here reads it.)
StopProcs ==
    /\ uiPc = "stop_procs"
    /\ \E how1, how2 \in {"termed", "nonzero"} :
         LET th == sessions[tts_thread]
             p1 == TermKill(th, th.piper_process, how1)
             p2 == TermKill([th EXCEPT !.procs = p1], th.process, how2)
         IN Set(tts_thread, [th EXCEPT !.procs = p2])
    /\ engine' = [engine EXCEPT !.speaking = 0]
    /\ play_btn' = TRUE
    /\ uiPc' = IF uiCont = "play" THEN "play_cont" ELSE "idle"
    /\ uiCont' = "stop"
    /\ UNCHANGED <<inputVars, calcVars, cacheVars, hlVars, tts_thread, dialog, signals>>

\* play_text after its stop_text() call returned.
PlayCont ==
    /\ uiPc = "play_cont"
    /\ play_text_body
    /\ uiPc' = "idle"
    /\ UNCHANGED <<inputVars, calcVars, cacheVars, signals, uiCont>>

\* on_speech_finished, run by the UI thread for a queued finished signal.
on_speech_finished ==
    /\ uiPc = "idle"
    /\ signals # <<>> /\ Head(signals)[2] = "finished"
    /\ signals' = Tail(signals)
    /\ stop_highlighting
    /\ UNCHANGED oneshots
    /\ play_btn' = TRUE
    /\ UNCHANGED <<inputVars, calcVars, cacheVars, sessions, tts_thread, dialog, uiPc, uiCont, engine>>

\* An error handler that only consumed the signal.
on_speech_error_ignored ==
    /\ uiPc = "idle"
    /\ signals # <<>> /\ Head(signals)[2] = "error"
    /\ signals' = Tail(signals)
    /\ UNCHANGED <<inputVars, calcVars, cacheVars, hlVars, sessions, tts_thread, dialog, uiPc, uiCont,
                   play_btn, engine>>

\* on_speech_error, run by the UI thread for a queued error signal.
on_speech_error ==
    /\ uiPc = "idle"
    /\ signals # <<>> /\ Head(signals)[2] = "error"
    /\ signals' = Tail(signals)
    /\ stop_highlighting
    /\ UNCHANGED oneshots
    /\ play_btn' = TRUE
    /\ dialog' = "Error"
    /\ UNCHANGED <<inputVars, calcVars, cacheVars, sessions, tts_thread, uiPc, uiCont, engine>>

UiNext ==
    \/ PlayText
    \/ \E cont \in {"stop", "play"} : StopTextBegin(cont)
    \/ StopProcs
    \/ PlayCont
    \/ on_speech_finished
    \/ on_speech_error

\* ============================================ process pipeline manager (4.2)

workerFrame == UNCHANGED <<inputVars, calcVars, cacheVars, hlVars, tts_thread, dialog, uiPc, uiCont, play_btn>>

\* An exception that leaves _run_piper_tts without its finally block.
RaiseFromFile_no_finally(s, th) ==
    /\ Set(s, [th EXCEPT !.err = @ + 1, !.pc = "done"])
    /\ Emit(s, "error")

\* The finally block of _run_piper_tts deletes the temp file; run() then
\* emits error(str(e)) for the exception and returns.
RaiseFromFile(s, th) ==
    /\ Set(s, [th EXCEPT !.temp = FALSE, !.err = @ + 1, !.pc = "done"])
    /\ Emit(s, "error")

\* TextToSpeechThread.run up to the strategy: return at once if stop() came
\* first (the finally block still stops the engine of a 'default' worker),
\* else enter _run_piper_tts or _run_pyttsx3 (engine.say, startLoop).
TtsRun(s) ==
    LET th == sessions[s] IN
    /\ th.kind \in {"piper", "default"} /\ th.pc = "start"
    /\ IF ~th.is_running
       THEN /\ Set(s, [th EXCEPT !.pc = "done"])
            /\ engine' = IF th.kind = "default"
                         THEN [engine EXCEPT !.speaking = 0] ELSE engine
       ELSE IF th.kind = "piper"
       THEN /\ Set(s, [th EXCEPT !.pc = "stream_piper"])
            /\ UNCHANGED engine
       ELSE /\ Set(s, [th EXCEPT !.pc = "tts_loop"])
            /\ engine' = [engine EXCEPT !.speaking = s]
    /\ UNCHANGED signals
    /\ workerFrame

\* _run_pyttsx3: the busy-polling loop ends because the engine is no longer
\* busy or because stop() cleared _is_running; run() emits finished only if
\* still running, and its finally block stops the engine.
TtsLoopExit(s) ==
    LET th == sessions[s] IN
    /\ th.pc = "tts_loop"
    /\ ~th.is_running \/ engine.speaking = 0
    /\ Set(s, [th EXCEPT !.pc = "done", !.fin = IF th.is_running THEN @ + 1 ELSE @])
    /\ IF th.is_running THEN Emit(s, "finished") ELSE UNCHANGED signals
    /\ engine' = [engine EXCEPT !.speaking = 0]
    /\ workerFrame

\* _run_pyttsx3: the loop ends after max_checks polls with the engine still
\* busy.
TtsLoopMaxChecks(s) ==
    LET th == sessions[s] IN
    /\ th.pc = "tts_loop"
    /\ th.is_running /\ engine.speaking # 0
    /\ Set(s, [th EXCEPT !.pc = "done", !.fin = @ + 1])
    /\ Emit(s, "finished")
    /\ engine' = [engine EXCEPT !.speaking = 0]
    /\ workerFrame

\* The system engine finishes speaking its utterance.
EngineDone ==
    /\ engine.speaking # 0
    /\ engine' = [engine EXCEPT !.speaking = 0]
    /\ UNCHANGED <<inputVars, calcVars, cacheVars, hlVars, sessions, tts_thread, dialog, signals,
                   uiPc, uiCont, play_btn>>

\* _run_piper_tts_stream_raw_linux: Popen(piper --output-raw).  A failed
\* spawn raises, and _run_piper_tts falls back to the file-based strategy.
StreamSpawnPiper(s) ==
    LET th == sessions[s] IN
    /\ th.pc = "stream_piper"
    /\ IF "piper" \in installed
       THEN Set(s, [th EXCEPT !.procs["spiper"] = "alive",
                              !.piper_process = "spiper", !.pc = "stream_player"])
       ELSE Set(s, [th EXCEPT !.pc = "file_synth"])
    /\ UNCHANGED <<signals, engine>>
    /\ workerFrame

\* _run_piper_tts_stream_raw_linux: Popen(aplay) on piper's stdout.
StreamSpawnPlayer(s) ==
    LET th == sessions[s] IN
    /\ th.pc = "stream_player"
    /\ IF "aplay" \in installed
       THEN Set(s, [th EXCEPT !.procs["splayer"] = "alive",
                              !.process = "splayer", !.pc = "stream_wait_piper"])
       ELSE Set(s, [th EXCEPT !.pc = "file_synth"])
    /\ UNCHANGED <<signals, engine>>
    /\ workerFrame

\* A streaming strategy whose piper failure is reported instead of retried.
StreamWaitPiper_raise(s) ==
    LET th == sessions[s] IN
    /\ th.pc = "stream_wait_piper"
    /\ th.procs["spiper"] # "alive" \/ ~th.is_running
    /\ IF th.procs["spiper"] \in {"nonzero", "termed"}
       THEN /\ Set(s, [th EXCEPT !.err = @ + 1, !.pc = "done"])
            /\ Emit(s, "error")
       ELSE /\ Set(s, [th EXCEPT !.pc = "stream_wait_player"])
            /\ UNCHANGED signals
    /\ UNCHANGED engine
    /\ workerFrame

\* "Wait for Piper to finish": the loop ends when piper exited or stop() came;
\* an exit status other than 0 / None raises (fallback to the file strategy).
StreamWaitPiper(s) ==
    LET th == sessions[s] IN
    /\ th.pc = "stream_wait_piper"
    /\ th.procs["spiper"] # "alive" \/ ~th.is_running
    /\ IF th.procs["spiper"] \in {"nonzero", "termed"}
       THEN Set(s, [th EXCEPT !.pc = "file_synth"])
       ELSE Set(s, [th EXCEPT !.pc = "stream_wait_player"])
    /\ UNCHANGED <<signals, engine>>
    /\ workerFrame

\* "Wait for playback to finish"; then _run_piper_tts returns and run()
\* returns without emitting anything (line 327-328).
StreamWaitPlayer(s) ==
    LET th == sessions[s] IN
    /\ th.pc = "stream_wait_player"
    /\ th.procs["splayer"] # "alive" \/ ~th.is_running
    /\ Set(s, [th EXCEPT !.pc = "done"])
    /\ UNCHANGED <<signals, engine>>
    /\ workerFrame

\* File-based strategy: NamedTemporaryFile(delete=False), then
\* Popen(piper --output_file), which replaces self._process.
FileSpawnSynth(s) ==
    LET th == sessions[s] IN
    /\ th.pc = "file_synth"
    /\ IF "piper" \in installed
       THEN /\ Set(s, [th EXCEPT !.temp = TRUE, !.procs["synth"] = "alive",
                                 !.process = "synth", !.pc = "file_wait_synth"])
            /\ UNCHANGED signals
       ELSE RaiseFromFile(s, th)
    /\ UNCHANGED engine
    /\ workerFrame

\* "Wait for process to complete, checking if we should stop": the process
\* exited; or stop() came and the worker terminates it and waits up to 1 s,
\* which either succeeds or raises TimeoutExpired.
FileWaitSynth(s, inTime) ==
    LET th == sessions[s] IN
    /\ th.pc = "file_wait_synth"
    /\ IF th.procs["synth"] # "alive"
       THEN /\ inTime
            /\ Set(s, [th EXCEPT !.pc = "file_check"])
            /\ UNCHANGED signals
       ELSE /\ ~th.is_running
            /\ IF inTime
               THEN /\ Set(s, [th EXCEPT !.procs["synth"] = "termed", !.pc = "file_check"])
                    /\ UNCHANGED signals
               ELSE RaiseFromFile(s, th)
    /\ UNCHANGED engine
    /\ workerFrame

\* "Check for errors": a status other than 0 and -15 raises only if the
\* process wrote something to stderr; the output file always exists (it was
\* created before piper ran).
FileCheck(s, stderr_output) ==
    LET th == sessions[s] IN
    /\ th.pc = "file_check"
    /\ IF th.procs["synth"] = "nonzero" /\ stderr_output
       THEN RaiseFromFile(s, th)
       ELSE /\ Set(s, [th EXCEPT !.pc = "file_player", !.try = 1])
            /\ UNCHANGED signals
    /\ UNCHANGED engine
    /\ workerFrame

\* A player loop that goes on to the next candidate after a successful spawn.
spawn_player_no_break(th, stays, waitPc) ==
    LET slot == Players[th.try] IN
    IF slot \notin installed
    THEN [th EXCEPT !.try = @ + 1]
    ELSE IF stays
    THEN [th EXCEPT !.procs[slot] = "alive", !.process = slot, !.try = @ + 1]
    ELSE [th EXCEPT !.procs[slot] = "dead", !.process = "None", !.try = @ + 1]

\* One round of the player loop, the same text in _run_piper_tts (744-758)
\* and PlayWavThread.run (848-861): Popen the next candidate;
\* FileNotFoundError -> continue; still alive at poll() -> break; exited at
\* once -> self._process = None.
spawn_player(th, stays, waitPc) ==
    LET slot == Players[th.try] IN
    IF slot \notin installed
    THEN [th EXCEPT !.try = @ + 1]
    ELSE IF stays
    THEN [th EXCEPT !.procs[slot] = "alive", !.process = slot, !.pc = waitPc]
    ELSE [th EXCEPT !.procs[slot] = "dead", !.process = "None", !.try = @ + 1]

\* _run_piper_tts, "Linux: try mpv, ffplay, or paplay".
FileSpawnPlayer(s, stays) ==
    LET th == sessions[s] IN
    /\ th.pc = "file_player" /\ th.try <= Len(Players)
    /\ Set(s, spawn_player(th, stays, "file_wait_play"))
    /\ UNCHANGED <<signals, engine>>
    /\ workerFrame

\* _run_piper_tts after the player loop: "if not self._process: raise".
FilePlayersDone(s) ==
    LET th == sessions[s] IN
    /\ th.pc = "file_player" /\ th.try > Len(Players)
    /\ IF th.process = "None"
       THEN RaiseFromFile(s, th)
       ELSE /\ Set(s, [th EXCEPT !.pc = "file_wait_play"])
            /\ UNCHANGED signals
    /\ UNCHANGED engine
    /\ workerFrame

\* "Wait for playback": self._process exited; or stop() came and the worker
\* terminates it, waits 0.5 s and kills it.  The finally block deletes the
\* temp file; run() returns without emitting anything.
FileWaitPlay(s) ==
    LET th == sessions[s] IN
    /\ th.pc = "file_wait_play"
    /\ th.procs[th.process] # "alive" \/ ~th.is_running
    /\ Set(s, [th EXCEPT !.procs = TermKill(th, th.process, "nonzero"),
                         !.temp = FALSE, !.pc = "done"])
    /\ UNCHANGED <<signals, engine>>
    /\ workerFrame

\* A cached-file worker that synthesises the text again before playing.
WavRun_resynth(s) ==
    LET th == sessions[s] IN
    /\ th.kind = "wav" /\ th.pc = "start"
    /\ Set(s, [th EXCEPT !.pc = "file_synth"])
    /\ UNCHANGED <<signals, engine>>
    /\ workerFrame

\* PlayWavThread.run: the file must exist, else error.
WavRun(s) ==
    LET th == sessions[s] IN
    /\ th.kind = "wav" /\ th.pc = "start"
    /\ IF th.wav \subseteq disk
       THEN /\ Set(s, [th EXCEPT !.pc = "wav_player", !.try = 1])
            /\ UNCHANGED signals
       ELSE /\ Set(s, [th EXCEPT !.err = @ + 1, !.pc = "done"])
            /\ Emit(s, "error")
    /\ UNCHANGED engine
    /\ workerFrame

\* PlayWavThread.run, the player loop.
WavSpawnPlayer(s, stays) ==
    LET th == sessions[s] IN
    /\ th.pc = "wav_player" /\ th.try <= Len(Players)
    /\ Set(s, spawn_player(th, stays, "wav_wait"))
    /\ UNCHANGED <<signals, engine>>
    /\ workerFrame

\* A PlayWavThread.run that goes on to finished.emit after reporting that no
\* player was found.
WavPlayersDone_no_return(s) ==
    LET th == sessions[s] IN
    /\ th.pc = "wav_player" /\ th.try > Len(Players)
    /\ IF th.process = "None"
       THEN /\ Set(s, [th EXCEPT !.err = @ + 1, !.pc = "done",
                                 !.fin = IF th.is_running THEN @ + 1 ELSE @])
            /\ signals' = IF th.is_running
                          THEN signals \o <<<<s, "error">>, <<s, "finished">>>>
                          ELSE Append(signals, <<s, "error">>)
       ELSE /\ Set(s, [th EXCEPT !.pc = "wav_wait"])
            /\ UNCHANGED signals
    /\ UNCHANGED engine
    /\ workerFrame

\* PlayWavThread.run after the loop: "if not self._process: error.emit".
WavPlayersDone(s) ==
    LET th == sessions[s] IN
    /\ th.pc = "wav_player" /\ th.try > Len(Players)
    /\ IF th.process = "None"
       THEN /\ Set(s, [th EXCEPT !.err = @ + 1, !.pc = "done"])
            /\ Emit(s, "error")
       ELSE /\ Set(s, [th EXCEPT !.pc = "wav_wait"])
            /\ UNCHANGED signals
    /\ UNCHANGED engine
    /\ workerFrame

\* PlayWavThread.run, the end: the wait loop ends when the player exited or
\* stop() came; a player still alive is terminated and waited on for 0.5 s
\* (no kill); finished is emitted only if still running.
WavWait(s, died) ==
    LET th == sessions[s] IN
    /\ th.pc = "wav_wait"
    /\ th.procs[th.process] # "alive" \/ ~th.is_running
    /\ IF th.procs[th.process] = "alive"
       THEN Set(s, [th EXCEPT !.procs[th.process] = IF died THEN "dead" ELSE "alive",
                              !.pc = "done"])
       ELSE /\ died
            /\ Set(s, [th EXCEPT !.pc = "done", !.fin = IF th.is_running THEN @ + 1 ELSE @])
    /\ IF th.is_running /\ th.procs[th.process] # "alive"
       THEN Emit(s, "finished") ELSE UNCHANGED signals
    /\ UNCHANGED engine
    /\ workerFrame

\* An external process ends by itself, a piper process with status 0 or not.
ProcExit(s, slot, status) ==
    LET th == sessions[s] IN
    /\ th.procs[slot] = "alive"
    /\ status \in (IF slot \in PiperSlots /\ th.pc # "done"
                    THEN {"exit0", "nonzero"} ELSE {"dead"})
    /\ Set(s, [th EXCEPT !.procs[slot] = status])
    /\ UNCHANGED <<signals, engine>>
    /\ workerFrame

WorkerNext ==
    \/ EngineDone
    \/ \E s \in DOMAIN sessions : TtsRun(s)
    \/ \E s \in DOMAIN sessions : TtsLoopExit(s)
    \/ \E s \in DOMAIN sessions : TtsLoopMaxChecks(s)
    \/ \E s \in DOMAIN sessions : StreamSpawnPiper(s)
    \/ \E s \in DOMAIN sessions : StreamSpawnPlayer(s)
    \/ \E s \in DOMAIN sessions : StreamWaitPiper(s)
    \/ \E s \in DOMAIN sessions : StreamWaitPlayer(s)
    \/ \E s \in DOMAIN sessions : FileSpawnSynth(s)
    \/ \E s \in DOMAIN sessions, inTime \in BOOLEAN : FileWaitSynth(s, inTime)
    \/ \E s \in DOMAIN sessions, stderr_output \in BOOLEAN : FileCheck(s, stderr_output)
    \/ \E s \in DOMAIN sessions, stays \in BOOLEAN : FileSpawnPlayer(s, stays)
    \/ \E s \in DOMAIN sessions : FilePlayersDone(s)
    \/ \E s \in DOMAIN sessions : FileWaitPlay(s)
    \/ \E s \in DOMAIN sessions : WavRun(s)
    \/ \E s \in DOMAIN sessions, stays \in BOOLEAN : WavSpawnPlayer(s, stays)
    \/ \E s \in DOMAIN sessions : WavPlayersDone(s)
    \/ \E s \in DOMAIN sessions, died \in BOOLEAN : WavWait(s, died)
    \/ \E s \in DOMAIN sessions, slot \in Slots, st \in {"exit0", "nonzero", "dead"} :
         ProcExit(s, slot, st)

CacheNext ==
    \/ \E t \in Texts : TextChanged(t)
    \/ \E v \in Voices : VoiceChanged(v)
    \/ \E d \in {PRE_RENDER_DEBOUNCE_MS \div 2, PRE_RENDER_DEBOUNCE_MS} : TimePasses(d)
    \/ do_pre_render
    \/ \E w \in DOMAIN prWorkers : PreRenderCreate(w)
    \/ \E w \in DOMAIN prWorkers : PreRenderSynthOk(w)
    \/ \E w \in DOMAIN prWorkers : PreRenderSynthFail(w)
    \/ PreRenderDone
    \/ PlayText

\* The pre-render cache under edits, voice changes and Play, from the
\* constructed application.  The session workers are not scheduled here: no
\* step of theirs reads or writes the text box, the voice, the cache or its
\* files (workerFrame), so the session started by Play stays as created.
SpecCache == Init /\ [][CacheNext]_vars

\* A composed request: the state in which the user presses Play for the first
\* time.  The text box holds a text, a voice is selected, and the pre-render
\* of that text and voice either has been committed (worker 1 ran piper and
\* _on_pre_render_done stored its file) or has not happened.  The host's
\* executables vary only where a worker can read them (a Piper voice with a
\* resolved piper binary; a committed pre-render means piper ran, and aplay,
\* which the playback of a pre-rendered file never spawns, is taken as
\* installed there), and the two Piper voices being interchangeable, one
\* stands for both.
InitSession ==
    /\ text = <<"a">>
    /\ voice \in {"default", "p1.onnx"}
    /\ piper_available \in BOOLEAN
    /\ installed \in (IF is_piper_voice(voice) /\ piper_available
                       THEN SUBSET Executables ELSE {Executables})
    /\ engine = [init |-> FALSE, speaking |-> 0]
    /\ \/ /\ pre_render_wanted
          /\ {"piper", "aplay"} \subseteq installed
          /\ pre_render_text = Some(text)
          /\ pre_render_voice_id = Some(voice)
          /\ pre_render_audio_path = Some(1)
          /\ prWorkers = <<[text |-> text, voice |-> voice, pc |-> "committed", ok |-> TRUE]>>
          /\ disk = {1}
       \/ /\ pre_render_text = None
          /\ pre_render_voice_id = None
          /\ pre_render_audio_path = None
          /\ prWorkers = <<>>
          /\ disk = {}
    /\ debounce_active = FALSE
    /\ debounce_left = 0
    /\ since_change = PRE_RENDER_DEBOUNCE_MS
    /\ prQueue = <<>>
    /\ sessions = <<>>
    /\ tts_thread = 0
    /\ signals = <<>>
    /\ uiPc = "idle"
    /\ uiCont = "stop"
    /\ highlight_timer = FALSE
    /\ word_positions = 0
    /\ current_word_index = 0
    /\ highlighted = {}
    /\ delay_ms = 0
    /\ timer_left = 0
    /\ oneshots = <<>>
    /\ play_btn = TRUE
    /\ dialog = "none"
    /\ NothingComputed
    /\ rate = RateDefault

SessionNext == UiNext \/ WorkerNext

\* Play / Stop on a composed request: the controller, the workers and their
\* processes.
SpecSession == InitSession /\ [][SessionNext]_vars

\* The request of the highlighting specification: MaxWords words "a",
\* separated by single spaces.
HighlightText == [i \in 1..(2 * MaxWords - 1) |-> IF i % 2 = 1 THEN "a" ELSE " "]

\* As InitSession, with a request of several words, on four hosts: every
\* executable installed, no file player, piper alone, and nothing.
InitHighlight ==
    /\ text = HighlightText
    /\ voice \in {"default", "p1.onnx"}
    /\ piper_available \in BOOLEAN
    /\ installed \in (IF is_piper_voice(voice) /\ piper_available
                       THEN {Executables, {"piper", "aplay"}, {"piper"}, {}}
                       ELSE {Executables})
    /\ engine = [init |-> FALSE, speaking |-> 0]
    /\ \/ /\ pre_render_wanted
          /\ {"piper", "aplay"} \subseteq installed
          /\ pre_render_text = Some(text)
          /\ pre_render_voice_id = Some(voice)
          /\ pre_render_audio_path = Some(1)
          /\ prWorkers = <<[text |-> text, voice |-> voice, pc |-> "committed", ok |-> TRUE]>>
          /\ disk = {1}
       \/ /\ pre_render_text = None
          /\ pre_render_voice_id = None
          /\ pre_render_audio_path = None
          /\ prWorkers = <<>>
          /\ disk = {}
    /\ debounce_active = FALSE
    /\ debounce_left = 0
    /\ since_change = PRE_RENDER_DEBOUNCE_MS
    /\ prQueue = <<>>
    /\ sessions = <<>>
    /\ tts_thread = 0
    /\ signals = <<>>
    /\ uiPc = "idle"
    /\ uiCont = "stop"
    /\ highlight_timer = FALSE
    /\ word_positions = 0
    /\ current_word_index = 0
    /\ highlighted = {}
    /\ delay_ms = 0
    /\ timer_left = 0
    /\ oneshots = <<>>
    /\ play_btn = TRUE
    /\ dialog = "none"
    /\ NothingComputed
    /\ rate = RateDefault

HighlightNext == SessionNext \/ HighlightTick \/ OneShotTick \/ HlTimePasses

\* Play / Stop with the highlight timer and the one-shot call running.
SpecHighlight == InitHighlight /\ [][HighlightNext]_vars

\* ===================================== cached playback under edits

\* The pre-render of the text and voice has been committed when the user
\* presses Play.
InitRace == InitSession /\ pre_render_audio_path # None

RaceNext ==
    \/ PlayText
    \/ \E t \in Texts : TextChanged(t)
    \/ \E v \in Voices : VoiceChanged(v)
    \/ \E s \in DOMAIN sessions : WavRun(s)
    \/ \E s \in DOMAIN sessions, stays \in BOOLEAN : WavSpawnPlayer(s, stays)
    \/ \E s \in DOMAIN sessions : WavPlayersDone(s)
    \/ \E s \in DOMAIN sessions, died \in BOOLEAN : WavWait(s, died)
    \/ \E s \in DOMAIN sessions, slot \in PlayerSlots : ProcExit(s, slot, "dead")
    \/ on_speech_finished
    \/ on_speech_error

\* Play of a pre-rendered text while the user goes on editing: the UI
\* thread's handlers and the cached-file worker (a worker of the other kinds,
\* started by a later Play, is not scheduled here).
SpecRace == InitRace /\ [][RaceNext]_vars

\* ============================================ pre-render of long texts

\* Texts around the length guard: n times "a".
Rep(n) == [i \in 1..n |-> "a"]
GuardTexts ==
    {<<>>, <<" ">>, <<"a">>,
     Rep(PRE_RENDER_MAX_CHARS),
     <<" ">> \o Rep(PRE_RENDER_MAX_CHARS) \o <<" ">>,
     Rep(PRE_RENDER_MAX_CHARS + 1)}

GuardNext ==
    \/ \E t \in GuardTexts : TextChanged(t)
    \/ \E v \in Voices : VoiceChanged(v)
    \/ \E d \in {PRE_RENDER_DEBOUNCE_MS \div 2, PRE_RENDER_DEBOUNCE_MS} : TimePasses(d)
    \/ do_pre_render

\* Edits that paste texts at the length guard, and the debounce timer.
SpecGuard == Init /\ [][GuardNext]_vars

\* ================================================== helper functions alone

\* The application just constructed, nothing typed and nothing playing.
AppIdle ==
    /\ text = <<>>
    /\ voice = "default"
    /\ piper_available = FALSE
    /\ installed = Executables
    /\ engine = [init |-> FALSE, speaking |-> 0]
    /\ pre_render_text = None
    /\ pre_render_voice_id = None
    /\ pre_render_audio_path = None
    /\ debounce_active = FALSE
    /\ debounce_left = 0
    /\ since_change = PRE_RENDER_DEBOUNCE_MS
    /\ prWorkers = <<>>
    /\ prQueue = <<>>
    /\ disk = {}
    /\ sessions = <<>>
    /\ tts_thread = 0
    /\ signals = <<>>
    /\ uiPc = "idle"
    /\ uiCont = "stop"
    /\ highlight_timer = FALSE
    /\ word_positions = 0
    /\ current_word_index = 0
    /\ highlighted = {}
    /\ delay_ms = 0
    /\ timer_left = 0
    /\ oneshots = <<>>
    /\ play_btn = TRUE
    /\ dialog = "none"

\* self._convert_rate_to_playback_speed(self.rate), as _run_piper_tts calls
\* it before the player loop.
ConvertRate ==
    /\ speed_multiplier' = convert_rate_to_playback_speed(rate)
    /\ UNCHANGED <<inputVars, cacheVars, hlVars, sessVars,
                   speed, sidecar, sample_rate, paths, piper_binary>>

\* _playback_speed_from_rate(self.rate), as PlayWavThread.run calls it.
PlaybackSpeed ==
    /\ speed' = playback_speed_from_rate(rate)
    /\ UNCHANGED <<inputVars, cacheVars, hlVars, sessVars,
                   speed_multiplier, sidecar, sample_rate, paths, piper_binary>>

\* Both speed functions at every position of the speed slider.
InitSpeed ==
    /\ AppIdle
    /\ rate \in RateMin..RateMax
    /\ NothingComputed

SpeedNext == ConvertRate \/ PlaybackSpeed

SpecSpeed == InitSpeed /\ [][SpeedNext]_vars

\* self._read_piper_sample_rate(model_path), as the streaming strategy calls
\* it.
ReadSampleRate ==
    /\ sample_rate' = read_piper_sample_rate(sidecar)
    /\ UNCHANGED <<inputVars, cacheVars, hlVars, sessVars,
                   speed_multiplier, speed, sidecar, paths, piper_binary>>

\* _read_piper_sample_rate on every voice config.
InitSampleRate ==
    /\ AppIdle
    /\ rate = RateDefault
    /\ speed_multiplier = NotComputed
    /\ speed = NotComputed
    /\ sidecar \in Sidecars
    /\ sample_rate = 0
    /\ paths = [i \in DOMAIN Candidates |-> IF i \in {1, 2} THEN "unset" ELSE "missing"]
    /\ piper_binary = "not called"

SampleRateNext == ReadSampleRate

SpecSampleRate == InitSampleRate /\ [][SampleRateNext]_vars

\* find_piper_binary(configured_path), as ReadAnythingApp.__init__ calls it.
FindPiperBinary ==
    /\ piper_binary' = find_piper_binary(paths)
    /\ UNCHANGED <<inputVars, cacheVars, hlVars, sessVars,
                   speed_multiplier, speed, sidecar, sample_rate, paths>>

\* find_piper_binary on every host.
InitFindPiper ==
    /\ AppIdle
    /\ rate = RateDefault
    /\ speed_multiplier = NotComputed
    /\ speed = NotComputed
    /\ sidecar = [kind |-> "absent", sample_rate |-> 0]
    /\ sample_rate = 0
    /\ paths \in Hosts
    /\ piper_binary = "not called"

FindPiperNext == FindPiperBinary

SpecFindPiper == InitFindPiper /\ [][FindPiperNext]_vars

\* ================================================== highlighting with time

\* A request of several words with a Piper voice on a host with everything
\* installed, at any position of the speed slider.
InitLatency ==
    /\ text = HighlightText
    /\ voice = "p1.onnx"
    /\ rate \in RateMin..RateMax
    /\ piper_available = TRUE
    /\ installed = Executables
    /\ engine = [init |-> FALSE, speaking |-> 0]
    /\ pre_render_text = None
    /\ pre_render_voice_id = None
    /\ pre_render_audio_path = None
    /\ debounce_active = FALSE
    /\ debounce_left = 0
    /\ since_change = PRE_RENDER_DEBOUNCE_MS
    /\ prWorkers = <<>>
    /\ prQueue = <<>>
    /\ disk = {}
    /\ sessions = <<>>
    /\ tts_thread = 0
    /\ signals = <<>>
    /\ uiPc = "idle"
    /\ uiCont = "stop"
    /\ highlight_timer = FALSE
    /\ word_positions = 0
    /\ current_word_index = 0
    /\ highlighted = {}
    /\ delay_ms = 0
    /\ timer_left = 0
    /\ oneshots = <<>>
    /\ play_btn = TRUE
    /\ dialog = "none"
    /\ NothingComputed

LatencyNext == PlayText \/ HlTimePasses \/ HighlightTick \/ OneShotTick

\* Play at every rate, and the timers of the highlighting as time passes
\* (the worker is not scheduled: the highlighting does not depend on it).
SpecLatency == InitLatency /\ [][LatencyNext]_vars

\* A step of the worker of session s or of one of its processes.
WorkerOf(s) ==
    /\ s \in DOMAIN sessions
    /\ \/ TtsRun(s) \/ TtsLoopExit(s) \/ TtsLoopMaxChecks(s)
       \/ StreamSpawnPiper(s) \/ StreamSpawnPlayer(s)
       \/ StreamWaitPiper(s) \/ StreamWaitPlayer(s)
       \/ FileSpawnSynth(s)
       \/ \E inTime \in BOOLEAN : FileWaitSynth(s, inTime)
       \/ \E stderr_output \in BOOLEAN : FileCheck(s, stderr_output)
       \/ \E stays \in BOOLEAN : FileSpawnPlayer(s, stays)
       \/ FilePlayersDone(s) \/ FileWaitPlay(s)
       \/ WavRun(s)
       \/ \E stays \in BOOLEAN : WavSpawnPlayer(s, stays)
       \/ WavPlayersDone(s)
       \/ \E died \in BOOLEAN : WavWait(s, died)
       \/ \E slot \in Slots, st \in {"exit0", "nonzero", "dead"} : ProcExit(s, slot, st)

\* Scheduling: a started thread runs, a process that was spawned exits, the
\* engine finishes its utterance, time passes, the Qt event loop delivers
\* queued signals and timer events, and stop_text / play_text, once entered,
\* run to their end.  Nothing obliges the user to press Play or Stop.
Fairness ==
    /\ \A s \in 1..MaxSessions : WF_vars(WorkerOf(s))
    /\ WF_vars(EngineDone)
    /\ WF_vars(StopProcs)
    /\ WF_vars(PlayCont)
    /\ WF_vars(on_speech_finished)
    /\ WF_vars(on_speech_error)
    /\ WF_vars(HighlightTick)
    /\ WF_vars(OneShotTick)
    /\ WF_vars(HlTimePasses)

\* SpecHighlight under that scheduling.
SpecLive == SpecHighlight /\ Fairness

\* ====================================================== claims, C1 to C6

\* The worker of session s owns a process that is running.
Live(s) == \E sl \in Slots : sessions[s].procs[sl] = "alive"

\* stop_text was called for session s and has returned.
StopReturned(s) ==
    /\ ~sessions[s].is_running
    /\ ~(uiPc = "stop_procs" /\ tts_thread = s)

\* C1: no reachable state has workers of two different sessions, both still
\* in run(), each owning a live synthesis or playback process.
C1_OneSessionLive ==
    \A s1, s2 \in DOMAIN sessions :
        (s1 # s2 /\ isRunning(s1) /\ isRunning(s2)) => ~(Live(s1) /\ Live(s2))

\* C2: once stop_text has returned for a session, no process spawned by that
\* session is running.
C2_NoProcessAfterStop ==
    \A s \in DOMAIN sessions : StopReturned(s) => ~Live(s)

C4_FinishedOnCompletion ==
    \A s \in DOMAIN sessions :
        LET th == sessions[s] IN
        ( /\ th.pc = "done" /\ th.is_running /\ th.err = 0
          /\ \/ th.kind = "default"
             \/ \E sl \in PlayerSlots \cup {"splayer"} : th.procs[sl] = "dead" )
        => th.fin = 1

\* C5: with no player installed, the step by which a session that was not
\* cancelled leaves the player loop of the file-based strategy or of the
\* cache-hit playback emits an error, and the session owns no running
\* process afterwards.
C5_NoPlayerIsAnError ==
    [][\A s \in DOMAIN sessions :
         ( /\ sessions[s].pc \in {"file_player", "wav_player"}
           /\ sessions[s].is_running /\ sessions'[s].is_running
           /\ sessions[s].try > Len(Players)
           /\ installed \cap PlayerSlots = {}
           /\ sessions'[s].pc # sessions[s].pc )
         => ( /\ sessions'[s].err = sessions[s].err + 1
              /\ signals' = Append(signals, <<s, "error">>)
              /\ \A sl \in Slots : sessions'[s].procs[sl] # "alive" )]_vars

\* The streaming strategy has failed at the worker's current position: a
\* spawn will raise, or piper exited with a status other than 0.
StreamFailed(th) ==
    \/ th.pc = "stream_piper" /\ "piper" \notin installed
    \/ th.pc = "stream_player" /\ "aplay" \notin installed
    \/ th.pc = "stream_wait_piper" /\ th.procs["spiper"] \in {"nonzero", "termed"}

FilePcs == {"file_synth", "file_wait_synth", "file_check", "file_player"}

\* C6: when the streaming strategy fails, the worker's next step enters the
\* file-based strategy with the same request and reports nothing; a neural
\* session's error is only ever emitted by a failing file-based strategy.
C6_StreamFallback ==
    [][\A s \in DOMAIN sessions :
         LET th == sessions[s]
             th2 == sessions'[s] IN
         /\ (StreamFailed(th) /\ th2.pc # th.pc) =>
               /\ th2.pc = "file_synth"
               /\ th2.text = th.text /\ th2.voice = th.voice
               /\ th2.err = th.err
               /\ signals' = signals
         /\ (th.kind = "piper" /\ th2.err > th.err) => th.pc \in FilePcs]_vars

\* A session whose streaming piper exited non-zero is playing the file the
\* file-based strategy produced, and no error was reported.
C6_Witness ==
    \E s \in DOMAIN sessions :
        /\ sessions[s].procs["spiper"] = "nonzero"
        /\ sessions[s].pc = "file_wait_play"
        /\ sessions[s].is_running
        /\ sessions[s].err = 0

\* ===================================================== claims, C7 to C10

\* C7: every session that plays a pre-rendered file plays the output of a
\* successful pre-render of exactly its own text and voice.
C7_PlaysOnlyOwnRender ==
    \A s \in DOMAIN sessions :
        sessions[s].kind = "wav" =>
            \E w \in sessions[s].wav :
                /\ w \in DOMAIN prWorkers
                /\ prWorkers[w].ok
                /\ prWorkers[w].text = sessions[s].text
                /\ prWorkers[w].voice = sessions[s].voice

\* A session plays the second pre-render's file after the first pre-render,
\* of another text or voice, had succeeded too.
C7_Witness ==
    \E s \in DOMAIN sessions :
        /\ sessions[s].kind = "wav"
        /\ sessions[s].wav = Some(2)
        /\ prWorkers[1].ok
        /\ <<prWorkers[1].text, prWorkers[1].voice>> # <<sessions[s].text, sessions[s].voice>>

\* C8: the callback of a pre-render commits the result exactly when the
\* worker succeeded and the trimmed text and the voice current at that moment
\* equal the ones the worker started with; otherwise the cache is left as it
\* was and the worker's file is not on disk afterwards.
C8_CommitOnlyIfCurrent ==
    [][(prQueue # <<>> /\ prQueue' = Tail(prQueue)) =>
          LET w == Head(prQueue) IN
          IF prWorkers[w].ok /\ strip(text) = prWorkers[w].text /\ voice = prWorkers[w].voice
          THEN /\ pre_render_audio_path' = Some(w)
               /\ pre_render_text' = Some(prWorkers[w].text)
               /\ pre_render_voice_id' = Some(prWorkers[w].voice)
               /\ w \in disk'
          ELSE /\ w \notin disk'
               /\ UNCHANGED <<pre_render_text, pre_render_voice_id, pre_render_audio_path>>]_vars

\* A successful pre-render was discarded, and its file deleted, because the
\* text or the voice had changed before its callback ran.
C8_Witness ==
    \E w \in DOMAIN prWorkers :
        /\ prWorkers[w].pc = "discarded"
        /\ prWorkers[w].ok
        /\ w \notin disk

\* Every started pre-render worker has reported and its callback has run.
AllReported ==
    \A w \in DOMAIN prWorkers : prWorkers[w].pc \in {"committed", "discarded"}

\* C9: once every started pre-render worker has reported, the pre-render
\* files on disk are exactly the committed entry's file (none if the cache
\* is empty).
C9_OnlyCommittedFileRemains ==
    AllReported => disk = pre_render_audio_path

\* Two pre-renders have succeeded and reported; the second one's file is the
\* entry and the only file left.
C9_Witness ==
    /\ AllReported
    /\ Len(prWorkers) = 2
    /\ prWorkers[1].ok /\ prWorkers[2].ok
    /\ pre_render_audio_path = Some(2)
    /\ disk = {2}

\* C10 as stated: a pre-render file is on disk if and only if the cache holds
\* an entry, with its text and voice, that refers to it.
C10_FileIffReady ==
    \A w \in DOMAIN prWorkers :
        w \in disk <=> ( /\ pre_render_audio_path = Some(w)
                         /\ pre_render_text # None
                         /\ pre_render_voice_id # None )

\* C10, amended: the entry's file is on disk and the entry records the text
\* and voice it was rendered from; every other pre-render file on disk is the
\* output of a worker that is still synthesising or whose callback has not
\* run yet.
C10_FileReadyOrPending ==
    /\ \A w \in pre_render_audio_path :
          /\ w \in disk
          /\ pre_render_text = Some(prWorkers[w].text)
          /\ pre_render_voice_id = Some(prWorkers[w].voice)
    /\ (pre_render_audio_path = None) <=> (pre_render_text = None)
    /\ (pre_render_audio_path = None) <=> (pre_render_voice_id = None)
    /\ \A w \in disk :
          w \in pre_render_audio_path \/ prWorkers[w].pc \in {"synth", "posted"}

\* The entry's file and the file of a pre-render in progress are both on
\* disk.
C10_Witness ==
    /\ pre_render_audio_path = Some(1)
    /\ disk = {1, 2}
    /\ prWorkers[2].pc = "synth"

\* ==================================================== claims, C11 to C20

\* play_text can start: the handler is ready to run on the UI thread, for a
\* non-empty text, directly or after stopping the running worker.
PlayEnabled == ENABLED (PlayText \/ StopTextBegin("play"))

\* The error session s emitted has been handled by on_speech_error.
ErrorHandled(s) ==
    /\ sessions[s].err > 0
    /\ \A i \in DOMAIN signals : signals[i] # <<s, "error">>

\* C11: a worker that raised has emitted exactly one error and returned;
\* when on_speech_error handles it, highlighting is stopped, the Play button
\* is enabled and the UI thread is back in its event loop; and once the
\* error of the current session is handled no worker runs and play_text can
\* start a new session.
C11_ErrorThenIdle ==
    /\ [](\A s \in DOMAIN sessions :
            /\ sessions[s].err > 0 => sessions[s].pc = "done" /\ sessions[s].err = 1
            /\ (ErrorHandled(s) /\ tts_thread = s /\ uiPc = "idle"
                                /\ Len(sessions) < MaxSessions)
                  => ~thread_running /\ PlayEnabled)
    /\ [][(signals # <<>> /\ signals' = Tail(signals) /\ Head(signals)[2] = "error") =>
            /\ sessions[Head(signals)[1]].err = 1
            /\ ~highlight_timer' /\ word_positions' = 0 /\ current_word_index' = 0
            /\ play_btn'
            /\ uiPc' = "idle"]_vars

\* The error of the current session has been handled: its signal is
\* consumed, highlighting is off and Play is available.
C11_Witness ==
    /\ tts_thread # 0
    /\ sessions[tts_thread].err = 1
    /\ sessions[tts_thread].is_running
    /\ signals = <<>>
    /\ uiPc = "idle" /\ play_btn /\ ~highlight_timer
    /\ Len(sessions) < MaxSessions

\* C12: on a host with every executable installed, a neural-voice worker
\* whose _is_running flag stop() has cleared emits neither error nor finished
\* from then on.
C12_CancelledIsSilent ==
    [][\A s \in DOMAIN sessions :
         ( /\ installed = Executables
           /\ sessions[s].kind = "piper"
           /\ ~sessions[s].is_running ) =>
            /\ sessions'[s].err = sessions[s].err
            /\ sessions'[s].fin = sessions[s].fin]_vars

\* C13: on a host with every executable installed, when a neural-voice
\* worker has returned, no process it spawned is still running.
C13_NoProcessAtReturn ==
    \A s \in DOMAIN sessions :
        ( /\ installed = Executables
          /\ sessions[s].kind = "piper"
          /\ sessions[s].pc = "done" ) => ~Live(s)

\* The step is the failure of pre-render worker w (piper exited non-zero,
\* raised or timed out) or the delivery of a failed worker's callback.
PreRenderFailureStep ==
    \/ \E w \in DOMAIN prWorkers :
         prWorkers[w].pc = "synth" /\ prWorkers'[w].pc = "posted" /\ ~prWorkers'[w].ok
    \/ prQueue # <<>> /\ prQueue' = Tail(prQueue) /\ ~prWorkers[Head(prQueue)].ok

ChangeStep == text' # text \/ voice' # voice

\* C15: every text or voice change empties the cache entry in the same step
\* and restarts the debounce timer at the full interval; and a background
\* synthesis begins only when PRE_RENDER_DEBOUNCE_MS have passed since the
\* most recent change.
C15_DebounceRestarts ==
    /\ [][ChangeStep =>
            /\ pre_render_text' = None
            /\ pre_render_voice_id' = None
            /\ pre_render_audio_path' = None
            /\ debounce_active' /\ debounce_left' = PRE_RENDER_DEBOUNCE_MS]_vars
    /\ [][Len(prWorkers') > Len(prWorkers) => since_change >= PRE_RENDER_DEBOUNCE_MS]_vars

\* A synthesis has begun, and a later change has restarted the timer, which
\* has run for half the interval since.
C15_Witness ==
    /\ Len(prWorkers) = 1
    /\ debounce_active
    /\ since_change = PRE_RENDER_DEBOUNCE_MS \div 2
    /\ debounce_left = PRE_RENDER_DEBOUNCE_MS - since_change
    /\ pre_render_audio_path = None

C17_IndexInRange ==
    /\ [](0 <= current_word_index /\ current_word_index <= word_positions)
    /\ [][((HighlightTick \/ OneShotTick) /\ current_word_index >= word_positions) =>
            ~highlight_timer' /\ word_positions' = 0 /\ current_word_index' = 0]_vars

\* The ticks have walked the whole list of a request of several words and
\* the timer is still to fire once more.
C17_Witness ==
    /\ word_positions = MaxWords
    /\ current_word_index = word_positions
    /\ highlight_timer

\* The current session is over: its worker has returned and every signal it
\* emitted has been handled, the UI thread standing in no handler.
SessionOver(s) ==
    /\ tts_thread = s
    /\ sessions[s].pc = "done"
    /\ uiPc = "idle"
    /\ \A i \in DOMAIN signals : signals[i][1] # s

\* C18: once a session is over, by completion, error or cancel, the
\* highlight timer is stopped, the word list is empty and the index is 0
\* (so that no tick highlights a word before the next start_highlighting).
C18_OverMeansCleared ==
    \A s \in DOMAIN sessions :
        SessionOver(s) =>
            ~highlight_timer /\ word_positions = 0 /\ current_word_index = 0

\* The step belongs to a cancelled session other than the current one: the
\* UI thread handles a signal that session's worker emitted, or that worker
\* (or one of its processes) takes a step.
StepOfOldSession ==
    \/ /\ signals # <<>>
       /\ Head(signals)[1] # tts_thread
       /\ ~sessions[Head(signals)[1]].is_running
       /\ signals' = Tail(signals)
    \/ \E s \in DOMAIN sessions :
          /\ s # tts_thread
          /\ ~sessions[s].is_running
          /\ sessions'[s] # sessions[s]

\* C19: while the session started by a second Play runs, uncancelled, no
\* step of the cancelled first session stops its highlighting, enables the
\* Play button, stops the engine speaking for it or ends one of its
\* processes.
C19_SecondUndisturbed ==
    [][(/\ thread_running
        /\ sessions[tts_thread].is_running
        /\ uiPc = "idle"
        /\ StepOfOldSession) =>
          /\ UNCHANGED <<highlight_timer, word_positions, current_word_index, play_btn>>
          /\ engine.speaking = tts_thread => engine'.speaking = tts_thread
          /\ sessions'[tts_thread] = sessions[tts_thread]]_vars

\* The controller is idle: no worker runs, highlighting is stopped and the
\* Play button is enabled.
Idle ==
    /\ uiPc = "idle"
    /\ ~thread_running
    /\ ~highlight_timer
    /\ play_btn

\* C20: whenever a session has been started (here: on a host with every
\* executable installed), the controller is idle again at some later time.
C20_EventuallyIdle == (tts_thread # 0 /\ installed = Executables) ~> Idle

\* C21 as stated: the delay of the running highlight timer is
\* clamp(floor(60000 / rate), 50, 1000).
C21_DelayIsFloorQuotient ==
    highlight_timer => delay_ms = Max(50, Min(60000 \div rate, 1000))

\* C21, amended: the delay of the running highlight timer lies in
\* [50, 1000], is clamp(floor(60000 / rate), 50, 1000) or one less, and no
\* lower rate of the slider gives a smaller delay.
C21_DelayMonotoneInRange ==
    highlight_timer =>
        /\ 50 <= delay_ms /\ delay_ms <= 1000
        /\ Max(50, Min(60000 \div rate, 1000)) - delay_ms \in {0, 1}
        /\ \A r \in RateMin..rate : delay_per_word(r) >= delay_ms

\* Highlighting runs at 125 words per minute, where the quotient 480 is
\* computed as 479.
C21_Witness ==
    /\ highlight_timer
    /\ rate = 125
    /\ delay_ms = 479

\* C22: for every rate of the slider both speed functions return the rate
\* divided by 150 (the clamp to 0.3 .. 2.5 never acts), which is 1 at 150,
\* 2 at 300 and one third at 50, and they return the same value.
C22_SpeedsAgree ==
    /\ speed_multiplier # NotComputed =>
          /\ speed_multiplier.num * 150 = rate * speed_multiplier.den
          /\ FracLE(Frac(3, 10), speed_multiplier) /\ FracLE(speed_multiplier, Frac(5, 2))
          /\ rate = 150 => speed_multiplier.num = speed_multiplier.den
          /\ rate = 300 => speed_multiplier.num = 2 * speed_multiplier.den
          /\ rate = 50 => 3 * speed_multiplier.num = speed_multiplier.den
    /\ speed # NotComputed =>
          speed.num * 150 = rate * speed.den
    /\ (speed_multiplier # NotComputed /\ speed # NotComputed) =>
          speed_multiplier.num * speed.den = speed.num * speed_multiplier.den

\* Both functions have been called at the slowest rate and returned a third.
C22_Witness ==
    /\ rate = RateMin
    /\ speed_multiplier = Frac(50, 150)
    /\ speed = Frac(50, 150)

\* C23 as stated: the value returned lies in [8000, 96000]; it is the
\* declared value clamped to that range whenever the config declares an
\* integer, and 22050 when the config is absent, unreadable or without the
\* field.
C23_ClampedOrDefault ==
    sample_rate # 0 =>
        /\ 8000 <= sample_rate /\ sample_rate <= 96000
        /\ sidecar.kind = "integer" =>
              sample_rate = Max(8000, Min(96000, sidecar.sample_rate))
        /\ sidecar.kind # "integer" => sample_rate = 22050

\* C23, amended: the value returned lies in [8000, 96000]; it is the
\* declared value clamped to that range when the config declares an integer
\* other than 0, and 22050 when it declares 0 or is absent, unreadable or
\* without a usable field.
C23_ClampedNonZeroOrDefault ==
    sample_rate # 0 =>
        /\ 8000 <= sample_rate /\ sample_rate <= 96000
        /\ (sidecar.kind = "integer" /\ sidecar.sample_rate # 0) =>
              sample_rate = Max(8000, Min(96000, sidecar.sample_rate))
        /\ (sidecar.kind # "integer" \/ sidecar.sample_rate = 0) => sample_rate = 22050

\* A config declaring one more than the maximum was read as the maximum.
C23_Witness ==
    /\ sidecar = [kind |-> "integer", sample_rate |-> 96001]
    /\ sample_rate = 96000

\* The debounce timer fires.
TimerFires == debounce_active /\ ~debounce_active' /\ text' = text /\ voice' = voice

\* C24: a background synthesis is started only if the trimmed text is not
\* empty and has at most PRE_RENDER_MAX_CHARS characters, the voice is a
\* Piper model and the piper executable is available; and when the timer
\* fires on a trimmed text of exactly PRE_RENDER_MAX_CHARS characters, with
\* such a voice and the executable, a synthesis is started.
C24_PreRenderGuard ==
    /\ [][Len(prWorkers') > Len(prWorkers) =>
            /\ strip(text) # <<>>
            /\ Len(strip(text)) <= PRE_RENDER_MAX_CHARS
            /\ is_piper_voice(voice)
            /\ piper_available]_vars
    /\ [][(/\ TimerFires
           /\ Len(strip(text)) = PRE_RENDER_MAX_CHARS
           /\ is_piper_voice(voice) /\ piper_available) =>
            /\ Len(prWorkers') = Len(prWorkers) + 1
            /\ prWorkers'[Len(prWorkers')].text = strip(text)]_vars

\* A synthesis of exactly PRE_RENDER_MAX_CHARS characters was started, for a
\* text that is longer before it is trimmed; and the timer is running again,
\* on a text that is one character too long.
C24_Witness ==
    /\ prWorkers # <<>>
    /\ Len(prWorkers[1].text) = PRE_RENDER_MAX_CHARS
    /\ Len(strip(text)) = PRE_RENDER_MAX_CHARS + 1
    /\ debounce_active

\* C25: a Play that finds the text and voice in the pre-render cache creates
\* a worker for the cached file, with no process; and a cached-file worker
\* never has a piper process or a streaming player, only candidates of the
\* player chain.
C25_CacheHitNoSynthesis ==
    /\ [](\A s \in DOMAIN sessions :
            sessions[s].kind = "wav" =>
                \A slot \in Slots \ PlayerSlots : sessions[s].procs[slot] = "none")
    /\ [][(pre_render_hit /\ Len(sessions') > Len(sessions)) =>
            LET th == sessions'[Len(sessions')] IN
            /\ th.kind = "wav"
            /\ th.wav = pre_render_audio_path
            /\ \A slot \in Slots : th.procs[slot] = "none"]_vars

\* A cached-file worker is playing the file with a player of the chain.
C25_Witness ==
    \E s \in DOMAIN sessions :
        /\ sessions[s].kind = "wav"
        /\ sessions[s].pc = "wav_wait"
        /\ sessions[s].process \in PlayerSlots
        /\ sessions[s].procs[sessions[s].process] = "alive"

\* C26: once find_piper_binary has been called, it has returned the first
\* place of the list that holds an executable, or None when no place does;
\* it has not raised.
C26_FirstQualifyingOrNone ==
    piper_binary # "not called" => piper_binary = FirstOk(paths, 1)

\* C27: a play_text for a Piper voice, with no cache hit and no piper
\* executable, shows the "Piper TTS Not Available" dialog and does nothing
\* else: no worker is created (so no process is spawned), the current worker
\* is the same, the highlighting state and the Play button are untouched.
C27_UnavailableOnlyReports ==
    [][((PlayText \/ PlayCont)
        /\ is_piper_voice(voice) /\ ~pre_render_hit /\ ~piper_available) =>
            /\ dialog' = "Piper TTS Not Available"
            /\ sessions' = sessions
            /\ tts_thread' = tts_thread
            /\ play_btn' = play_btn
            /\ UNCHANGED <<hlVars, engine>>]_vars

\* The dialog was shown by the first Play: there is no worker, no
\* highlighting, and Play is still enabled.
C27_Witness ==
    /\ dialog = "Piper TTS Not Available"
    /\ is_piper_voice(voice) /\ ~piper_available
    /\ sessions = <<>>
    /\ ~highlight_timer /\ oneshots = <<>>
    /\ play_btn

\* Worker s of the file-based strategy spawns a player in this step.
FileSpawnsPlayer(s) ==
    /\ sessions[s].kind = "piper"
    /\ sessions[s].pc = "file_player"
    /\ \E slot \in PlayerSlots :
          /\ sessions[s].procs[slot] = "none"
          /\ sessions'[s].procs[slot] # "none"

\* C28: in the file-based strategy a worker that was not stopped spawns a
\* player only after its synthesis process exited with status 0 and its
\* output file exists.
C28_PlayerOnlyAfterSuccess ==
    [][\A s \in DOMAIN sessions :
          (sessions[s].is_running /\ FileSpawnsPlayer(s)) =>
              /\ sessions[s].procs["synth"] = "exit0"
              /\ sessions[s].temp]_vars

\* Worker s spawns candidate i of the player chain in this step.
SpawnsCandidate(s, i) ==
    /\ sessions[s].procs[Players[i]] = "none"
    /\ sessions'[s].procs[Players[i]] # "none"

C30_FirstHighlightAfterLatency ==
    [][(current_word_index = 0 /\ current_word_index' = 1) =>
          (oneshots # <<>> /\ Head(oneshots) = 0)]_vars

\* C31: at most one span is highlighted at any time; a span that becomes
\* highlighted is the one at the current index, and the index then advances
\* by exactly one; the index changes only by one step up or by a reset to 0;
\* and when the highlighting ends by itself (a tick finds the list
\* exhausted), every span of the text has been highlighted.
C31_SpansInSequence ==
    /\ [](Cardinality(highlighted) <= 1)
    /\ [][(highlighted' # highlighted /\ highlighted' # {}) =>
            /\ highlighted' = {current_word_index}
            /\ current_word_index' = current_word_index + 1
            /\ highlighted \subseteq {current_word_index - 1}]_vars
    /\ [][current_word_index' # current_word_index =>
            \/ current_word_index' = current_word_index + 1
            \/ current_word_index' = 0]_vars
    /\ [][((HighlightTick \/ OneShotTick) /\ highlight_timer /\ ~highlight_timer') =>
            /\ current_word_index = prepare_word_positions(strip(text))
            /\ highlighted = {current_word_index - 1}]_vars

\* The last span of the text is the highlighted one.
C31_Witness ==
    /\ highlight_timer
    /\ word_positions = MaxWords
    /\ current_word_index = word_positions
    /\ highlighted = {word_positions - 1}

\* C32: a worker of the system engine emits finished only when the engine
\* is no longer busy with its utterance.
C32_FinishedAfterAudio ==
    [][\A s \in DOMAIN sessions :
          (sessions[s].kind = "default" /\ sessions'[s].fin > sessions[s].fin) =>
              engine.speaking # s]_vars

\* C33: a worker on which stop() has been called spawns no process.
C33_NoSpawnAfterStop ==
    [][\A s \in DOMAIN sessions : \A slot \in Slots :
          (~sessions[s].is_running /\ sessions[s].procs[slot] = "none") =>
              sessions'[s].procs[slot] = "none"]_vars

\* C34: a cached-file worker that has not yet looked for its file does not
\* end with an error: the file play_text selected is still there when
\* PlayWavThread.run tests os.path.exists.
C34_SelectedFileKept ==
    [][\A s \in DOMAIN sessions :
          (sessions[s].kind = "wav" /\ sessions[s].pc = "start") =>
              sessions'[s].err = sessions[s].err]_vars

\* The session whose start_highlighting posted the oldest pending one-shot
\* call.  Every Play of a text with words creates a session and posts one
\* call, and the calls come due in the order they were posted, so the
\* pending ones are those of the last Len(oneshots) sessions.
OneShotOwner == Len(sessions) - Len(oneshots) + 1

\* C35: a one-shot call that advances the word index was posted by the
\* start_highlighting of the session being highlighted, the latest one.
C35_OwnTicksOnly ==
    [][(OneShotTick /\ current_word_index' = current_word_index + 1) =>
          OneShotOwner = Len(sessions)]_vars

\* C36: a worker has emitted at most one signal, finished or error, and the
\* queue of signals holds no more signals of a worker than it emitted.
C36_OneTerminalSignal ==
    \A s \in DOMAIN sessions :
        /\ sessions[s].fin + sessions[s].err <= 1
        /\ Cardinality({i \in DOMAIN signals : signals[i][1] = s})
              <= sessions[s].fin + sessions[s].err

\* One worker has ended with finished and another with error.
C36_Witness ==
    \E s, t \in DOMAIN sessions :
        /\ sessions[s].pc = "done" /\ sessions[s].fin = 1 /\ sessions[s].err = 0
        /\ sessions[t].pc = "done" /\ sessions[t].err = 1 /\ sessions[t].fin = 0

\* C37: the three fields of the cache are all set or all empty, and an
\* entry records the trimmed content of the text box and the selected voice.
C37_EntryIsCurrent ==
    /\ \/ pre_render_text = None /\ pre_render_voice_id = None
          /\ pre_render_audio_path = None
       \/ pre_render_text # None /\ pre_render_voice_id # None
          /\ pre_render_audio_path # None
    /\ pre_render_audio_path # None =>
          /\ pre_render_text = Some(strip(text))
          /\ pre_render_voice_id = Some(voice)

\* The cache holds the entry of a second pre-render, made after an edit, for
\* a text box whose content differs from its trimmed form.
C37_Witness ==
    /\ pre_render_audio_path = Some(2)
    /\ pre_render_text = Some(strip(text))
    /\ strip(text) # text
    /\ prWorkers[1].pc \in {"committed", "discarded"}

\* C38: a worker that has returned has no on-demand temp file left.
C38_NoTempAfterReturn ==
    \A s \in DOMAIN sessions : sessions[s].pc = "done" => ~sessions[s].temp

\* Two workers of the file-based strategy have returned, one after its
\* playback (no signal), one with an error raised after the temp file was
\* created.
C38_Witness ==
    \E s, t \in DOMAIN sessions :
        /\ sessions[s].pc = "done" /\ sessions[s].procs["synth"] # "none"
        /\ sessions[s].err = 0
        /\ \E slot \in PlayerSlots : sessions[s].procs[slot] = "dead"
        /\ sessions[t].pc = "done" /\ sessions[t].procs["synth"] # "none"
        /\ sessions[t].err = 1

\* The pre-render workers whose synthesis has not ended yet.
PreRendersInFlight == {w \in DOMAIN prWorkers : prWorkers[w].pc \in {"start", "synth"}}

\* C39: at most one pre-render worker is running its synthesis.
C39_OnePreRenderInFlight == Cardinality(PreRendersInFlight) <= 1

====
